---- MODULE Spec2Model ----
(***************************************************************************)
(* Static memory planning of the WebGPU backend:                           *)
(* src/graph_builder/backend/webgpu/allocator.py                           *)
(*   MemoryLayout, Allocator.allocate, Allocator.allocate_constants,       *)
(*   Allocator.allocate_variables.                                         *)
(* A value is identified by its name (allocate renames every value to a    *)
(* distinct "v<i>"), modelled as a natural number.                         *)
(***************************************************************************)
EXTENDS Integers, Sequences, FiniteSets, TLC

VARIABLES graph, pc, constants, constants_layout, layout, retain_count,
          free_list, inplace_allocation_dict, op_i, out_i, in_i, space1,
          buffer, args

vars == <<graph, pc, constants, constants_layout, layout, retain_count,
          free_list, inplace_allocation_dict, op_i, out_i, in_i, space1,
          buffer, args>>

\* ------------------------------------------------------------------ bounds
\* largest element count of a value
MaxSize == 2
\* largest number of operators of a graph in topological order
MaxOps == 4
\* largest number of operators of a graph with unconstrained operators
MaxAnyOps == 2
\* largest number of graph inputs
MaxInputs == 2
\* number of values of the graphs with unconstrained operators
MaxValues == 3
\* largest element count of a value of a linear chain
MaxChainSize == 4
\* largest length of the list handed to allocate_constants
MaxConstants == 3
\* largest explicit offset handed to MemoryLayout.append
MaxOffset == 3
\* MemoryLayout.append is not called at the end of a longer arena than this
MaxArena == 5
\* largest number of operators of a graph with aliases and constants
MaxAliasOps == 2
\* number of outputs of the first operator of a wide graph
MaxOutputs == 3
\* largest number of one-input operators at the end of a wide graph
MaxUnaryOps == 2

\* ----------------------------------------------------------------- helpers
Range(s) == {s[i] : i \in DOMAIN s}

Max(a, b) == IF a >= b THEN a ELSE b

EmptyFun == [x \in {} |-> 0]

RECURSIVE SetToSeqs(_)
\* every enumeration order of a finite set
SetToSeqs(S) ==
    IF S = {} THEN {<<>>}
    ELSE UNION {{<<x>> \o t : t \in SetToSeqs(S \ {x})} : x \in S}

\* ------------------------------------------------------------- MemoryLayout
\* Allocation.size: the size of the allocated variable
AllocationSize(g, v) == g.size[v]

RECURSIVE MaxEnd(_, _, _)
MaxEnd(g, lay, S) ==
    IF S = {} THEN 0
    ELSE LET v == CHOOSE x \in S : TRUE
         IN  Max(lay[v] + AllocationSize(g, v), MaxEnd(g, lay, S \ {v}))

\* MemoryLayout.size: the largest offset + size over the allocations
LayoutSize(g, lay) == MaxEnd(g, lay, DOMAIN lay)

\* MemoryLayout.__contains__
Contains(lay, v) == v \in DOMAIN lay

\* var.original of a VariableAlias, the value itself otherwise
Original(g, v) == IF v \in DOMAIN g.alias THEN g.alias[v] ELSE v

\* MemoryLayout.append without `var = var.original`
LayoutAppend_NoResolve(g, lay, var, offset) ==
    LET off == IF offset = -1 THEN LayoutSize(g, lay) ELSE offset
    IN  [x \in (DOMAIN lay) \cup {var} |-> IF x = var THEN off ELSE lay[x]]

\* MemoryLayout.append: offset -1 stands for "at the current end"
LayoutAppend(g, lay, var, offset) ==
    LET off == IF offset = -1 THEN LayoutSize(g, lay) ELSE offset
        v   == Original(g, var)
    IN  [x \in (DOMAIN lay) \cup {v} |-> IF x = v THEN off ELSE lay[x]]

\* ---------------------------------------------------------------- the graph
\* the operators that consume v (Variable.input_to)
InputTo(g, v) ==
    {j \in DOMAIN g.ops : \E x \in Range(g.ops[j].inputs) : Original(g, x) = v}

\* len(var.input_to)
FanOut(g, v) == Cardinality(InputTo(g, v))

\* isinstance(var, ConstantVariable)
IsConstant(g, v) == v \in g.consts

\* util.listup_variables(graph, remove_alias=True): every value of the graph
ListupVariables(g) ==
    {Original(g, v) : v \in Range(g.inputs) \cup
        UNION {Range(g.ops[j].inputs) \cup Range(g.ops[j].outputs) : j \in DOMAIN g.ops}}

\* ---------------------------------------------------------------- free list
\* list.remove: the list without the first occurrence of x
Remove(fl, x) ==
    LET i == CHOOSE k \in DOMAIN fl : fl[k] = x /\ \A m \in 1..(k - 1) : fl[m] # x
    IN  SubSeq(fl, 1, i - 1) \o SubSeq(fl, i + 1, Len(fl))

\* the blocks of size >= size, in free-list order
Sufficient(fl, size) == SelectSeq(fl, LAMBDA s : s[2] >= size)

\* first fit: the earliest sufficient block, whatever its size
BestFit_FirstFit(fl, size) == Sufficient(fl, size)[1]

\* sorted(..., key=size)[0]: a smallest sufficient block, the earliest on ties
BestFit(fl, size) ==
    LET cand == Sufficient(fl, size)
        i    == CHOOSE k \in DOMAIN cand :
                    /\ \A m \in DOMAIN cand : cand[k][2] <= cand[m][2]
                    /\ \A m \in 1..(k - 1) : cand[m][2] > cand[k][2]
    IN  cand[i]

\* the free list after `size` elements are taken from block `space`
TakeFrom(fl, space, size) ==
    LET rest == Remove(fl, space)
    IN  IF space[2] > size
        THEN rest \o <<(<<space[1] + size, space[2] - size>>)>>
        ELSE rest

\* one merge of the coalescing loop: space1 and space2 leave, their union enters
Merge(st, space2, merged) ==
    IF st.err \/ st.s1 \notin Range(st.fl) THEN [st EXCEPT !.err = TRUE]
    ELSE LET f1 == Remove(st.fl, st.s1)
         IN  IF space2 \notin Range(f1) THEN [st EXCEPT !.err = TRUE]
             ELSE [fl |-> Remove(f1, space2) \o <<merged>>, s1 |-> merged,
                   changed |-> TRUE, err |-> FALSE]

\* the loop body without its second test: a block that follows space1 stays
ForBody_FirstTestOnly(st, space2) ==
    IF ~st.err /\ space2[1] + space2[2] = st.s1[1]
    THEN Merge(st, space2, <<space2[1], space2[2] + st.s1[2]>>)
    ELSE st

\* the body of `for space2 in list(free_list)`: both adjacency tests
ForBody(st, space2) ==
    LET a == IF ~st.err /\ space2[1] + space2[2] = st.s1[1]
             THEN Merge(st, space2, <<space2[1], space2[2] + st.s1[2]>>)
             ELSE st
    IN  IF ~a.err /\ space2[1] = a.s1[1] + a.s1[2]
        THEN Merge(a, space2, <<a.s1[1], space2[2] + a.s1[2]>>)
        ELSE a

RECURSIVE ForPass(_, _, _)
\* the for loop over the snapshot `snap` of the free list, from index i
ForPass(st, snap, i) ==
    IF i > Len(snap) \/ st.err THEN st
    ELSE ForPass(ForBody(st, snap[i]), snap, i + 1)

\* an iteration of the while loop that leaves flag_changed set
CoalescePass_AlwaysChanged(fl, s1) ==
    [ForPass([fl |-> fl, s1 |-> s1, changed |-> FALSE, err |-> FALSE], fl, 1)
        EXCEPT !.changed = TRUE]

\* one iteration of `while flag_changed`
CoalescePass(fl, s1) ==
    ForPass([fl |-> fl, s1 |-> s1, changed |-> FALSE, err |-> FALSE], fl, 1)

\* ------------------------------------------------------- allocate_constants
RECURSIVE ConstantsLoop(_, _, _, _)
\* `for constant in constants`: skip what the layout holds, append the rest
ConstantsLoop(g, lay, cs, i) ==
    IF i > Len(cs) THEN lay
    ELSE IF Contains(lay, cs[i]) THEN ConstantsLoop(g, lay, cs, i + 1)
    ELSE ConstantsLoop(g, LayoutAppend(g, lay, cs[i], -1), cs, i + 1)

RECURSIVE AppendAll(_, _, _, _)
AppendAll(g, lay, cs, i) ==
    IF i > Len(cs) THEN lay
    ELSE AppendAll(g, LayoutAppend(g, lay, cs[i], -1), cs, i + 1)

\* allocate_constants without the `constant in layout` test
AllocateConstantsLayout_NoSkip(g, cs) == AppendAll(g, EmptyFun, cs, 1)

\* the layout allocate_constants builds for the list cs
AllocateConstantsLayout(g, cs) == ConstantsLoop(g, EmptyFun, cs, 1)

RECURSIVE BufferLoop(_, _, _, _, _)
\* the second `for constant in constants`: the flattened data of each constant
\* is copied to [offset, offset + size) of the buffer (element k of the buffer
\* is buf[k + 1])
BufferLoop(g, lay, buf, cs, i) ==
    IF i > Len(cs) THEN buf
    ELSE LET off  == lay[cs[i]]
             size == AllocationSize(g, cs[i])
         IN  BufferLoop(g, lay,
                 [k \in DOMAIN buf |->
                     IF off < k /\ k <= off + size THEN g.data[cs[i]][k - off] ELSE buf[k]],
                 cs, i + 1)

\* allocate_constants without its second loop: the buffer stays zero
AllocateConstantsBuffer_NoFill(g, cs) ==
    LET lay == AllocateConstantsLayout(g, cs)
    IN  [k \in 1..LayoutSize(g, lay) |-> 0]

\* the buffer allocate_constants returns: np.zeros(layout.size), then filled
AllocateConstantsBuffer(g, cs) ==
    LET lay == AllocateConstantsLayout(g, cs)
    IN  BufferLoop(g, lay, [k \in 1..LayoutSize(g, lay) |-> 0], cs, 1)

\* ------------------------------------------------------- allocate_variables
RECURSIVE SeedLoop_NoSkip(_, _, _)
\* the seeding loop without the ConstantVariable test
SeedLoop_NoSkip(g, lay, i) ==
    IF i > Len(g.inputs) THEN lay
    ELSE SeedLoop_NoSkip(g, LayoutAppend(g, lay, Original(g, g.inputs[i]), -1), i + 1)

RECURSIVE SeedLoop(_, _, _)
\* `for var in graph.inputs.values()`: append every non-constant graph input
SeedLoop(g, lay, i) ==
    IF i > Len(g.inputs) THEN lay
    ELSE LET var == Original(g, g.inputs[i])
         IN  IF IsConstant(g, var) THEN SeedLoop(g, lay, i + 1)
             ELSE SeedLoop(g, LayoutAppend(g, lay, var, -1), i + 1)

RECURSIVE Advance_InputsFirst(_, _, _, _, _)
\* the loop order with the inputs loop of an operator ahead of its outputs loop
Advance_InputsFirst(g, p, i, o, n) ==
    IF i > Len(g.ops) THEN <<"done", i, 1, 1>>
    ELSE IF p = "outputs"
         THEN IF o > Len(g.ops[i].outputs) THEN Advance_InputsFirst(g, "inputs", i + 1, 1, 1)
              ELSE <<p, i, o, 1>>
         ELSE IF n > Len(g.ops[i].inputs) THEN Advance_InputsFirst(g, "outputs", i, 1, 1)
              ELSE <<p, i, 1, n>>

RECURSIVE Advance(_, _, _, _, _)
\* the loop position (pc, op, output, input) that follows a candidate position:
\* an exhausted outputs loop goes to the inputs loop, an exhausted inputs loop
\* to the next operator, an exhausted operator loop to the return
Advance(g, p, i, o, n) ==
    IF i > Len(g.ops) THEN <<"done", i, 1, 1>>
    ELSE IF p = "outputs"
         THEN IF o > Len(g.ops[i].outputs) THEN Advance(g, "inputs", i, 1, 1)
              ELSE <<p, i, o, 1>>
         ELSE IF n > Len(g.ops[i].inputs) THEN Advance(g, "outputs", i + 1, 1, 1)
              ELSE <<p, i, 1, n>>

GoTo(pos) ==
    /\ pc' = pos[1]
    /\ op_i' = pos[2]
    /\ out_i' = pos[3]
    /\ in_i' = pos[4]

\* an uncaught KeyError / ValueError: the pass aborts, nothing is returned
Raise ==
    /\ pc' = "error"
    /\ UNCHANGED <<layout, retain_count, free_list, inplace_allocation_dict,
                   op_i, out_i, in_i, space1>>

\* Allocator.allocate up to the call of allocate_variables: the constants are
\* split off as a set, listed in the set's iteration order, and packed
Allocate ==
    /\ pc = "allocate"
    /\ \E order \in SetToSeqs({v \in ListupVariables(graph) : IsConstant(graph, v)}) :
          /\ constants' = order
          /\ constants_layout' = AllocateConstantsLayout(graph, order)
          /\ buffer' = AllocateConstantsBuffer(graph, order)
    /\ pc' = "variables"
    /\ UNCHANGED <<graph, layout, retain_count, free_list, inplace_allocation_dict,
                   op_i, out_i, in_i, space1, args>>

\* the start of the pass with every retain count set to the value's fan-out
AllocateVariablesStart_FanOut ==
    /\ pc = "variables"
    /\ retain_count' = [v \in {x \in ListupVariables(graph) : ~IsConstant(graph, x)} |->
                           FanOut(graph, v)]
    /\ free_list' = <<>>
    /\ inplace_allocation_dict' = EmptyFun
    /\ layout' = SeedLoop(graph, EmptyFun, 1)
    /\ GoTo(Advance(graph, "outputs", 1, 1, 1))
    /\ UNCHANGED <<graph, constants, constants_layout, space1, buffer, args>>

\* allocate_variables before the operator loop: retain counts 0, empty free
\* list, graph inputs seeded
AllocateVariablesStart ==
    /\ pc = "variables"
    /\ retain_count' = [v \in {x \in ListupVariables(graph) : ~IsConstant(graph, x)} |-> 0]
    /\ free_list' = <<>>
    /\ inplace_allocation_dict' = EmptyFun
    /\ layout' = SeedLoop(graph, EmptyFun, 1)
    /\ GoTo(Advance(graph, "outputs", 1, 1, 1))
    /\ UNCHANGED <<graph, constants, constants_layout, space1, buffer, args>>

\* the Flatten branch without the retain of the input for the output's consumers
FlattenOutput_NoRetain(var) ==
    LET var_in == graph.ops[op_i].inputs[1]
    IN  IF ~Contains(layout, var_in)
        THEN Raise
        ELSE /\ layout' = LayoutAppend(graph, layout, var, layout[var_in])
             /\ inplace_allocation_dict' =
                    [x \in (DOMAIN inplace_allocation_dict) \cup {var} |->
                        IF x = var THEN var_in ELSE inplace_allocation_dict[x]]
             /\ retain_count' = retain_count
             /\ GoTo(Advance(graph, "outputs", op_i, out_i + 1, 1))
             /\ UNCHANGED <<free_list, space1>>

\* the Flatten branch: the output takes the offset of the operator's first input
FlattenOutput(var) ==
    LET var_in == graph.ops[op_i].inputs[1]
    IN  IF ~Contains(layout, var_in)
        THEN Raise
        ELSE /\ layout' = LayoutAppend(graph, layout, var, layout[var_in])
             /\ inplace_allocation_dict' =
                    [x \in (DOMAIN inplace_allocation_dict) \cup {var} |->
                        IF x = var THEN var_in ELSE inplace_allocation_dict[x]]
             /\ retain_count' =
                    [retain_count EXCEPT ![var_in] = @ + FanOut(graph, var)]
             /\ GoTo(Advance(graph, "outputs", op_i, out_i + 1, 1))
             /\ UNCHANGED <<free_list, space1>>

\* the general branch: best fit in the free list, else the end of the arena
GeneralOutput(var) ==
    LET size == graph.size[var]
    IN  /\ retain_count' = [x \in (DOMAIN retain_count) \cup {var} |->
                               IF x = var THEN FanOut(graph, var) ELSE retain_count[x]]
        /\ IF Len(Sufficient(free_list, size)) > 0
           THEN LET space == BestFit(free_list, size)
                IN  /\ free_list' = TakeFrom(free_list, space, size)
                    /\ layout' = LayoutAppend(graph, layout, var, space[1])
           ELSE /\ free_list' = free_list
                /\ layout' = LayoutAppend(graph, layout, var, -1)
        /\ GoTo(Advance(graph, "outputs", op_i, out_i + 1, 1))
        /\ UNCHANGED <<inplace_allocation_dict, space1>>

\* an iteration of the outputs loop without the `var not in layout` test
ProcessOutput_NoGuard ==
    /\ pc = "outputs"
    /\ LET var == Original(graph, graph.ops[op_i].outputs[out_i])
       IN  IF IsConstant(graph, var)
           THEN /\ GoTo(Advance(graph, "outputs", op_i, out_i + 1, 1))
                /\ UNCHANGED <<layout, retain_count, free_list,
                               inplace_allocation_dict, space1>>
           ELSE IF graph.ops[op_i].flatten
                THEN FlattenOutput(var)
                ELSE GeneralOutput(var)
    /\ UNCHANGED <<graph, constants, constants_layout, buffer, args>>

\* one iteration of `for var in op.outputs.values()`
ProcessOutput ==
    /\ pc = "outputs"
    /\ LET var == Original(graph, graph.ops[op_i].outputs[out_i])
       IN  IF IsConstant(graph, var) \/ Contains(layout, var)
           THEN /\ GoTo(Advance(graph, "outputs", op_i, out_i + 1, 1))
                /\ UNCHANGED <<layout, retain_count, free_list,
                               inplace_allocation_dict, space1>>
           ELSE IF graph.ops[op_i].flatten
                THEN FlattenOutput(var)
                ELSE GeneralOutput(var)
    /\ UNCHANGED <<graph, constants, constants_layout, buffer, args>>

\* one iteration of `for var in op.inputs.values()` up to the coalescing loop
ProcessInput ==
    /\ pc = "inputs"
    /\ LET var == Original(graph, graph.ops[op_i].inputs[in_i])
           v2  == IF var \in DOMAIN inplace_allocation_dict
                  THEN inplace_allocation_dict[var] ELSE var
       IN  IF IsConstant(graph, var)
           THEN /\ GoTo(Advance(graph, "inputs", op_i, 1, in_i + 1))
                /\ UNCHANGED <<layout, retain_count, free_list,
                               inplace_allocation_dict, space1>>
           ELSE IF v2 \notin DOMAIN retain_count
           THEN Raise
           ELSE IF retain_count[v2] - 1 # 0
           THEN /\ retain_count' = [retain_count EXCEPT ![v2] = @ - 1]
                /\ GoTo(Advance(graph, "inputs", op_i, 1, in_i + 1))
                /\ UNCHANGED <<layout, free_list, inplace_allocation_dict, space1>>
           ELSE IF ~Contains(layout, v2)
           THEN /\ retain_count' = [retain_count EXCEPT ![v2] = @ - 1]
                /\ pc' = "error"
                /\ UNCHANGED <<layout, free_list, inplace_allocation_dict,
                               op_i, out_i, in_i, space1>>
           ELSE /\ retain_count' = [retain_count EXCEPT ![v2] = @ - 1]
                /\ space1' = <<layout[v2], AllocationSize(graph, v2)>>
                /\ free_list' = free_list \o <<space1'>>
                /\ pc' = "coalesce"
                /\ UNCHANGED <<layout, inplace_allocation_dict, op_i, out_i, in_i>>
    /\ UNCHANGED <<graph, constants, constants_layout, buffer, args>>

\* one iteration of `while flag_changed`: a pass over a snapshot of the free list
Coalesce ==
    /\ pc = "coalesce"
    /\ LET r == CoalescePass(free_list, space1)
       IN  /\ free_list' = r.fl
           /\ space1' = r.s1
           /\ IF r.err
              THEN /\ pc' = "error"
                   /\ UNCHANGED <<op_i, out_i, in_i>>
              ELSE IF r.changed
              THEN UNCHANGED <<pc, op_i, out_i, in_i>>
              ELSE GoTo(Advance(graph, "inputs", op_i, 1, in_i + 1))
    /\ UNCHANGED <<graph, constants, constants_layout, layout, retain_count,
                   inplace_allocation_dict, buffer, args>>

Next ==
    \/ Allocate
    \/ AllocateVariablesStart
    \/ ProcessOutput
    \/ ProcessInput
    \/ Coalesce

\* ------------------------------------------------------------------- graphs
\* the input lists of an operator: one or two distinct available values
InputLists(avail) ==
    {<<a>> : a \in avail} \cup
    {<<p[1], p[2]>> : p \in {q \in avail \X avail : q[1] # q[2]}}

\* the operators that may come next: an operator has fresh outputs and consumes
\* available values; a Flatten has one input and one output
OpsAt(avail, fresh) ==
    {[flatten |-> FALSE, inputs |-> ins, outputs |-> <<fresh>>] : ins \in InputLists(avail)}
    \cup {[flatten |-> TRUE, inputs |-> <<a>>, outputs |-> <<fresh>>] : a \in avail}

RECURSIVE OpLists(_, _, _)
\* the operator lists of at most k operators in a topological order
OpLists(avail, fresh, k) ==
    IF k = 0 THEN {<<>>}
    ELSE LET rests == OpLists(avail \cup {fresh}, fresh + 1, k - 1)
         IN  {<<>>} \cup {<<op>> \o rest : op \in OpsAt(avail, fresh), rest \in rests}

\* a Flatten keeps the element count
FlattenSizesOk(ops, size) ==
    \A j \in DOMAIN ops :
        ops[j].flatten => size[ops[j].outputs[1]] = size[ops[j].inputs[1]]

\* constant.data.flatten(): `size` elements, none of them zero, no two alike
Data(size, consts) ==
    [v \in consts |-> [i \in 1..size[v] |-> v * (MaxSize + 1) + i]]

\* the graph of n graph inputs, operator list ops, sizes size, constants consts
Graph(n, ops, size, consts) ==
    [inputs |-> [i \in 1..n |-> i], ops |-> ops, size |-> size,
     consts |-> consts, alias |-> EmptyFun, data |-> Data(size, consts)]

\* graphs of one graph input whose operators consume the graph input and
\* outputs of earlier operators only and produce a value nothing produced
\* before; no value is a constant
IsTopologicalGraph(g) ==
    \E ops \in OpLists({1}, 2, MaxOps) :
        \E size \in [1..(1 + Len(ops)) -> 1..MaxSize] :
            /\ FlattenSizesOk(ops, size)
            /\ g = Graph(1, ops, size, {})

\* an operator over the values V with no constraint on what it consumes or
\* produces
AnyOps(V) ==
    {[flatten |-> FALSE, inputs |-> ins, outputs |-> <<o>>]
        : ins \in {<<a>> : a \in V} \cup {<<p[1], p[2]>> : p \in {q \in V \X V : q[1] < q[2]}},
          o \in V}
    \cup {[flatten |-> TRUE, inputs |-> <<a>>, outputs |-> <<o>>] : a \in V, o \in V}

RECURSIVE AnyOpLists(_, _)
AnyOpLists(V, k) ==
    IF k = 0 THEN {<<>>}
    ELSE LET rests == AnyOpLists(V, k - 1)
         IN  {<<>>} \cup {<<op>> \o rest : op \in AnyOps(V), rest \in rests}

\* graphs over MaxValues values, some of them constants, whose operators may
\* consume what nothing produced and produce what is already there
IsAnyGraph(g) ==
    \E n \in 1..MaxInputs : \E ops \in AnyOpLists(1..MaxValues, MaxAnyOps) :
        \E consts \in {c \in SUBSET (1..MaxValues) : Cardinality(c) <= 2} :
            \E size \in [1..MaxValues -> 1..MaxSize] :
                /\ FlattenSizesOk(ops, size)
                /\ g = Graph(n, ops, size, consts)

\* the state in which Allocator.allocate is entered
Entry ==
    /\ pc = "allocate"
    /\ constants = <<>>
    /\ constants_layout = EmptyFun
    /\ layout = EmptyFun
    /\ retain_count = EmptyFun
    /\ free_list = <<>>
    /\ inplace_allocation_dict = EmptyFun
    /\ op_i = 1
    /\ out_i = 1
    /\ in_i = 1
    /\ space1 = <<>>
    /\ buffer = <<>>
    /\ args = <<>>

Init ==
    /\ IsTopologicalGraph(graph) \/ IsAnyGraph(graph)
    /\ Entry

Spec == Init /\ [][Next]_vars

\* the graphs of Init that are one operator shorter
IsShortGraph(g) ==
    \/ \E ops \in OpLists({1}, 2, MaxOps - 1) :
          \E size \in [1..(1 + Len(ops)) -> 1..MaxSize] :
              /\ FlattenSizesOk(ops, size)
              /\ g = Graph(1, ops, size, {})
    \/ \E n \in 1..MaxInputs : \E ops \in AnyOpLists(1..MaxValues, MaxAnyOps - 1) :
          \E consts \in {c \in SUBSET (1..MaxValues) : Cardinality(c) <= 2} :
              \E size \in [1..MaxValues -> 1..MaxSize] :
                  /\ FlattenSizesOk(ops, size)
                  /\ g = Graph(n, ops, size, consts)

InitShort ==
    /\ IsShortGraph(graph)
    /\ Entry

\* the interpreter runs the pass on: a step that can be taken is taken
SpecFair == InitShort /\ [][Next]_vars /\ WF_vars(Next)

\* the VariableAlias object that stands for the value v
AliasId(v) == v + MaxInputs + MaxAliasOps

\* the reference to v: its alias if v is in the set A, v itself otherwise
Ref(v, A) == IF v \in A THEN AliasId(v) ELSE v

\* the operator op with its outputs in aout and its inputs in ain referred to
\* through aliases; the input of a Flatten is referred to directly
WithAliases(op, aout, ain) ==
    [flatten |-> op.flatten,
     inputs  |-> [k \in DOMAIN op.inputs |->
                     IF op.flatten THEN op.inputs[k] ELSE Ref(op.inputs[k], ain)],
     outputs |-> [k \in DOMAIN op.outputs |-> Ref(op.outputs[k], aout)]]

\* graphs in topological order of MaxInputs graph inputs, the last of which may
\* be a constant; at most one value is produced (or seeded) through an alias
\* and at most one is consumed through an alias
IsAliasGraph(g) ==
    \E ops \in OpLists(1..MaxInputs, MaxInputs + 1, MaxAliasOps) :
        LET V == 1..(MaxInputs + Len(ops))
        IN  \E size \in [V -> 1..MaxSize] :
            \E consts \in {{}, {MaxInputs}} :
            \E aout \in {A \in SUBSET V : Cardinality(A) <= 1} :
            \E ain \in {A \in SUBSET V : Cardinality(A) <= 1} :
                /\ FlattenSizesOk(ops, size)
                /\ g = [inputs |-> [i \in 1..MaxInputs |-> Ref(i, aout)],
                        ops    |-> [j \in DOMAIN ops |-> WithAliases(ops[j], aout, ain)],
                        size   |-> size,
                        consts |-> consts,
                        alias  |-> [a \in {AliasId(v) : v \in V} |-> a - MaxInputs - MaxAliasOps],
                        data   |-> Data(size, consts)]

InitAlias ==
    /\ IsAliasGraph(graph)
    /\ Entry

SpecAlias == InitAlias /\ [][Next]_vars

\* the first operator of a wide graph: it turns the graph input into MaxOutputs
\* values
WideFirst ==
    [flatten |-> FALSE, inputs |-> <<1>>, outputs |-> [k \in 1..MaxOutputs |-> k + 1]]

RECURSIVE UnaryLists(_, _, _)
\* the lists of at most k operators of one input and one fresh output
UnaryLists(avail, fresh, k) ==
    IF k = 0 THEN {<<>>}
    ELSE LET rests == UnaryLists(avail \cup {fresh}, fresh + 1, k - 1)
         IN  {<<>>} \cup
             {<<[flatten |-> FALSE, inputs |-> <<a>>, outputs |-> <<fresh>>]>> \o rest
                 : a \in avail, rest \in rests}

\* wide graphs: the first operator has MaxOutputs outputs, the second consumes
\* one or two of them, the following ones consume one value each; no Flatten
WideOpLists ==
    LET outs == 2..(MaxOutputs + 1)
        f    == MaxOutputs + 2
    IN  {<<WideFirst>>} \cup
        {<<WideFirst, [flatten |-> FALSE, inputs |-> ins, outputs |-> <<f>>]>> \o rest
            : ins \in InputLists(outs), rest \in UnaryLists(outs \cup {f}, f + 1, MaxUnaryOps)}

IsWideGraph(g) ==
    \E ops \in WideOpLists :
        \E size \in [1..(MaxOutputs + Len(ops)) -> 1..MaxSize] :
            g = Graph(1, ops, size, {})

InitWide ==
    /\ IsWideGraph(graph)
    /\ Entry

SpecWide == InitWide /\ [][Next]_vars

\* the operators v -> v+1 of a linear chain that starts at the graph input 1
ChainOps(k) == [j \in 1..k |-> [flatten |-> FALSE, inputs |-> <<j>>, outputs |-> <<j + 1>>]]

\* linear chains: every value is consumed once, by the operator that produces
\* the next one; the last value is the graph output
IsChainGraph(g) ==
    \E k \in 1..(MaxOps - 1) : \E size \in [1..(k + 1) -> 1..MaxChainSize] :
        g = Graph(1, ChainOps(k), size, {})

InitChain ==
    /\ IsChainGraph(graph)
    /\ Entry

SpecChain == InitChain /\ [][Next]_vars

TypeOK == pc \in {"allocate", "variables", "outputs", "inputs", "coalesce", "done", "error"}

\* ------------------------------------------------------- notions of the claims
\* the operators that produce v
OutputFrom(g, v) == {j \in DOMAIN g.ops : v \in Range(g.ops[j].outputs)}

\* the graph is one the orchestrator may hand over: no constants here, every
\* value is a graph input or the output of exactly one operator, and every
\* operator consumes only graph inputs and outputs of earlier operators
WellFormed(g) ==
    /\ g.consts = {}
    /\ \A v \in ListupVariables(g) :
          IF v \in Range(g.inputs) THEN OutputFrom(g, v) = {}
          ELSE Cardinality(OutputFrom(g, v)) = 1
    /\ \A j \in DOMAIN g.ops : \A v \in Range(g.ops[j].inputs) :
          v \in Range(g.inputs) \/ \E i \in 1..(j - 1) : v \in Range(g.ops[i].outputs)

\* the pass is inside the operator loop or has returned
Running == pc \in {"outputs", "inputs", "coalesce", "done"}

\* the range [offset, offset + size) of an allocated value, as a block
BlockOf(v) == <<layout[v], AllocationSize(graph, v)>>

Overlap(b1, b2) == b1[1] < b2[1] + b2[2] /\ b2[1] < b1[1] + b1[2]

RECURSIVE Root(_)
\* the value whose block the Flatten output v shares, through chained Flattens
Root(v) ==
    IF v \in DOMAIN inplace_allocation_dict /\ inplace_allocation_dict[v] # v
    THEN Root(inplace_allocation_dict[v]) ELSE v

\* the value v is live: allocated, and a graph input, a graph output, or a value
\* that the operator being processed or a later one consumes or that the
\* operator being processed produces
Live(v) ==
    /\ Contains(layout, v)
    /\ \/ v \in Range(graph.inputs)
       \/ FanOut(graph, v) = 0
       \/ \E j \in InputTo(graph, v) : j >= op_i
       \/ op_i \in DOMAIN graph.ops /\ v \in Range(graph.ops[op_i].outputs)

\* some operator after the one being processed consumes v
PendingConsumer(v) == \E j \in InputTo(graph, v) : j > op_i

\* C1: no two live values overlap unless they share a block through Flatten
C1_NoLiveOverlap ==
    (WellFormed(graph) /\ Running) =>
        \A v \in DOMAIN layout : \A w \in DOMAIN layout :
            (v # w /\ Live(v) /\ Live(w) /\ Overlap(BlockOf(v), BlockOf(w)))
                => Root(v) = Root(w)

\* C2: the block a Flatten output shares with its input is not free while a
\* consumer of the input, of the output or of a chained alias is still to come
C2_SharedBlockHeld ==
    (WellFormed(graph) /\ Running) =>
        \A y \in DOMAIN inplace_allocation_dict :
            (\E v \in DOMAIN layout : Root(v) = Root(y) /\ PendingConsumer(v))
                => \A k \in DOMAIN free_list : ~Overlap(free_list[k], BlockOf(Root(y)))

\* C4: no free block overlaps the range of an allocated value without consumers
C4_DeadOutputRetained ==
    (WellFormed(graph) /\ Running) =>
        \A v \in DOMAIN layout :
            FanOut(graph, v) = 0
                => \A k \in DOMAIN free_list : ~Overlap(free_list[k], BlockOf(v))

\* C5: between the steps of the pass the free list holds pairwise disjoint,
\* non-adjacent blocks, none of them twice
C5_FreeListDisjoint ==
    (WellFormed(graph) /\ pc \in {"outputs", "inputs", "done"}) =>
        \A k \in DOMAIN free_list : \A m \in DOMAIN free_list :
            k # m =>
                /\ ~Overlap(free_list[k], free_list[m])
                /\ free_list[k][1] + free_list[k][2] # free_list[m][1]

\* Allocator.allocate_constants called on the list `constants`
AllocateConstants ==
    /\ pc = "constants"
    /\ constants_layout' = AllocateConstantsLayout(graph, constants)
    /\ buffer' = AllocateConstantsBuffer(graph, constants)
    /\ pc' = "constants_done"
    /\ UNCHANGED <<graph, constants, layout, retain_count, free_list,
                   inplace_allocation_dict, op_i, out_i, in_i, space1, args>>

RECURSIVE SeqsUpTo(_, _)
\* the lists over S of length at most k
SeqsUpTo(S, k) ==
    IF k = 0 THEN {<<>>}
    ELSE LET shorter == SeqsUpTo(S, k - 1)
         IN  shorter \cup {<<x>> \o t : x \in S, t \in {u \in shorter : Len(u) = k - 1}}

\* a list of constants, an identity possibly several times in it
InitConstants ==
    /\ \E size \in [1..MaxValues -> 1..MaxSize] :
          graph = [inputs |-> <<>>, ops |-> <<>>, size |-> size,
                   consts |-> 1..MaxValues, alias |-> EmptyFun,
                   data |-> Data(size, 1..MaxValues)]
    /\ constants \in SeqsUpTo(1..MaxValues, MaxConstants)
    /\ pc = "constants"
    /\ constants_layout = EmptyFun
    /\ layout = EmptyFun
    /\ retain_count = EmptyFun
    /\ free_list = <<>>
    /\ inplace_allocation_dict = EmptyFun
    /\ op_i = 1
    /\ out_i = 1
    /\ in_i = 1
    /\ space1 = <<>>
    /\ buffer = <<>>
    /\ args = <<>>

NextConstants == AllocateConstants

SpecConstants == InitConstants /\ [][NextConstants]_vars

\* the graph X -> Op1 -> Y -> Op2 -> Z with X, Y, Z of size 4
ScenarioGraph == Graph(1, ChainOps(2), [v \in 1..3 |-> 4], {})

\* C3: on the scenario graph X is at 0, Y at 4, Z reuses the block of X at 0
\* and the arena is 8 long
C3_ScenarioLayout ==
    (graph = ScenarioGraph /\ pc = "done") =>
        /\ layout = [v \in 1..3 |-> IF v = 2 THEN 4 ELSE 0]
        /\ LayoutSize(graph, layout) = 8

\* the input being processed by the inputs loop
CurrentInput == Original(graph, graph.ops[op_i].inputs[in_i])

\* the output being processed by the outputs loop
CurrentOutput == Original(graph, graph.ops[op_i].outputs[out_i])

\* block b ends where block c starts
Precedes(b, c) == b[1] + b[2] = c[1]

\* the outputs loop is about to allocate its output in the general branch
GeneralCase ==
    /\ pc = "outputs"
    /\ ~IsConstant(graph, CurrentOutput)
    /\ ~Contains(layout, CurrentOutput)
    /\ ~graph.ops[op_i].flatten

\* the outputs loop is about to alias its output in the Flatten branch
FlattenCase ==
    /\ pc = "outputs"
    /\ ~IsConstant(graph, CurrentOutput)
    /\ ~Contains(layout, CurrentOutput)
    /\ graph.ops[op_i].flatten
    /\ Contains(layout, graph.ops[op_i].inputs[1])

\* C6, two blocks: the released block space1 and its one free neighbour become
\* their union, and nothing else is in the free list
TwoBlocksMerge ==
    (/\ pc = "coalesce"
     /\ Len(free_list) = 2
     /\ free_list[2] = space1
     /\ Precedes(free_list[1], space1) \/ Precedes(space1, free_list[1]))
        => LET lo == IF free_list[1][1] < space1[1] THEN free_list[1][1] ELSE space1[1]
           IN  free_list' = <<(<<lo, free_list[1][2] + space1[2]>>)>>

\* C6, three blocks: the released block space1 and its two free neighbours
\* collapse into one block
ThreeBlocksMerge ==
    (/\ pc = "coalesce"
     /\ Len(free_list) = 3
     /\ free_list[3] = space1
     /\ \E a \in 1..2 : /\ Precedes(free_list[a], space1)
                        /\ Precedes(space1, free_list[3 - a]))
        => LET a == CHOOSE k \in 1..2 : Precedes(free_list[k], space1)
           IN  free_list' =
                  <<(<<free_list[a][1], free_list[1][2] + free_list[2][2] + space1[2]>>)>>

\* C6, reuse: an allocation as large as the only free block takes its offset
\* and leaves the free list empty
ExactFitReuse ==
    (/\ GeneralCase
     /\ Len(free_list) = 1
     /\ free_list[1][2] = graph.size[CurrentOutput])
        => /\ free_list' = <<>>
           /\ layout'[CurrentOutput] = free_list[1][1]

\* C6: adjacent blocks released one after the other, in either order, end as
\* one free block, their union; an allocation of the union's size then takes
\* the union's starting offset and leaves no remainder
C6_CoalesceThenReuse == [][TwoBlocksMerge /\ ThreeBlocksMerge /\ ExactFitReuse]_vars

\* C6: two adjacent released values were merged and a later value of the size
\* of the union lies at its start, the free list being empty
C6_Witness ==
    /\ WellFormed(graph)
    /\ pc = "inputs"
    /\ free_list = <<>>
    /\ \E a \in DOMAIN layout : \E b \in DOMAIN layout : \E v \in DOMAIN layout :
          /\ Precedes(BlockOf(a), BlockOf(b))
          /\ retain_count[a] = 0 /\ FanOut(graph, a) > 0
          /\ retain_count[b] = 0 /\ FanOut(graph, b) > 0
          /\ space1 = <<layout[a], graph.size[a] + graph.size[b]>>
          /\ BlockOf(v) = space1
          /\ OutputFrom(graph, v) = {op_i}

\* C7: a Flatten gives its output the offset of its input and no block: the
\* arena size and the free list stay, and the input's retain count grows by
\* the fan-out of the output
C7_FlattenAliases ==
    [][FlattenCase =>
        LET x == graph.ops[op_i].inputs[1]
            y == CurrentOutput
        IN  /\ layout'[y] = layout[x]
            /\ \A v \in DOMAIN layout : layout'[v] = layout[v]
            /\ LayoutSize(graph, layout') = LayoutSize(graph, layout)
            /\ free_list' = free_list
            /\ retain_count'[x] = retain_count[x] + FanOut(graph, y)
            /\ \A v \in DOMAIN retain_count : v # x => retain_count'[v] = retain_count[v]]_vars

\* C7: X -> Flatten -> Y -> ReLU -> Z: the Flatten has just been given Y, which
\* one later non-Flatten operator consumes, at the offset of X
C7_Witness ==
    /\ WellFormed(graph)
    /\ pc = "inputs"
    /\ graph.ops[op_i].flatten
    /\ LET x == graph.ops[op_i].inputs[1]
           y == graph.ops[op_i].outputs[1]
       IN  /\ y \in DOMAIN inplace_allocation_dict
           /\ inplace_allocation_dict[y] = x
           /\ layout[y] = layout[x]
           /\ FanOut(graph, y) = 1
           /\ \A j \in InputTo(graph, y) : j > op_i /\ ~graph.ops[j].flatten

\* no constants, and every value other than a graph input has at most one
\* producer: the graph's only possible defect is a value nothing produced
SingleProducers(g) ==
    /\ g.consts = {}
    /\ \A v \in ListupVariables(g) :
          IF v \in Range(g.inputs) THEN OutputFrom(g, v) = {}
          ELSE Cardinality(OutputFrom(g, v)) <= 1

\* C8: consuming a non-constant value that has no allocation aborts the pass
C8_UnallocatedInputAborts ==
    [][(/\ pc = "inputs"
        /\ SingleProducers(graph)
        /\ ~IsConstant(graph, CurrentInput)
        /\ ~Contains(layout, CurrentInput)) => pc' = "error"]_vars

\* C9: the offsets allocate returns do not depend on the order in which the
\* set of constants is enumerated
C9_OrderIndependent ==
    pc = "done" =>
        \A order \in SetToSeqs(Range(constants)) :
            AllocateConstantsLayout(graph, order) = constants_layout

RECURSIVE FirstOccurrences(_)
\* the list without the later occurrences of each of its elements
FirstOccurrences(cs) ==
    IF cs = <<>> THEN <<>>
    ELSE LET front == FirstOccurrences(SubSeq(cs, 1, Len(cs) - 1))
             last  == cs[Len(cs)]
         IN  IF last \in Range(front) THEN front ELSE front \o <<last>>

RECURSIVE SumSizes(_, _)
\* the sum of the sizes of the first k values of the list d
SumSizes(d, k) == IF k = 0 THEN 0 ELSE SumSizes(d, k - 1) + graph.size[d[k]]

\* C10: the distinct constants lie back to back in first-occurrence order from
\* offset 0, one allocation each, and the layout is as long as their sizes sum
C10_ConstantsPacked ==
    pc = "constants_done" =>
        LET d == FirstOccurrences(constants)
        IN  /\ DOMAIN constants_layout = Range(constants)
            /\ \A i \in DOMAIN d : constants_layout[d[i]] = SumSizes(d, i - 1)
            /\ LayoutSize(graph, constants_layout) = SumSizes(d, Len(d))
            /\ \A i \in DOMAIN d : \A m \in DOMAIN d :
                  i # m => ~Overlap(<<constants_layout[d[i]], graph.size[d[i]]>>,
                                    <<constants_layout[d[m]], graph.size[d[m]]>>)

\* C10: a list in which a constant occurs again after a different one
C10_Witness ==
    /\ pc = "constants_done"
    /\ Len(constants) = 3
    /\ constants[1] = constants[3]
    /\ constants[1] # constants[2]
    /\ constants_layout[constants[2]] = graph.size[constants[1]]

\* C15: the buffer is as long as the constant layout; every constant's data
\* lies element for element at [offset, offset + size); every element that no
\* allocation covers is zero
C15_ConstantBuffer ==
    pc = "constants_done" =>
        /\ Len(buffer) = LayoutSize(graph, constants_layout)
        /\ \A c \in Range(constants) : \A i \in 1..graph.size[c] :
              buffer[constants_layout[c] + i] = graph.data[c][i]
        /\ \A k \in DOMAIN buffer :
              (\A c \in DOMAIN constants_layout :
                  ~(constants_layout[c] < k /\ k <= constants_layout[c] + graph.size[c]))
                  => buffer[k] = 0

\* C15: two different constants, the second one two elements long, were packed
\* and the second one's data starts behind the first one's
C15_Witness ==
    /\ pc = "constants_done"
    /\ Len(constants) >= 2
    /\ constants[1] # constants[2]
    /\ graph.size[constants[2]] = 2
    /\ buffer[graph.size[constants[1]] + 1] = graph.data[constants[2]][1]
    /\ buffer[graph.size[constants[1]] + 2] = graph.data[constants[2]][2]

\* a call layout.append(var, offset): var is a value or an alias of a value,
\* offset is -1 (the default) or an offset of the arena
MemoryLayoutAppend ==
    /\ pc = "layout"
    /\ \E var \in 1..(2 * MaxValues) : \E offset \in (-1)..MaxOffset :
          /\ offset = -1 => LayoutSize(graph, layout) <= MaxArena
          /\ layout' = LayoutAppend(graph, layout, var, offset)
          /\ args' = <<var, offset>>
    /\ UNCHANGED <<graph, pc, constants, constants_layout, retain_count, free_list,
                   inplace_allocation_dict, op_i, out_i, in_i, space1, buffer>>

\* an empty layout over MaxValues values, each of which has one alias
InitLayout ==
    /\ \E size \in [1..MaxValues -> 1..MaxSize] :
          graph = [inputs |-> <<>>, ops |-> <<>>, size |-> size, consts |-> {},
                   alias |-> [a \in (MaxValues + 1)..(2 * MaxValues) |-> a - MaxValues],
                   data |-> EmptyFun]
    /\ pc = "layout"
    /\ constants = <<>>
    /\ constants_layout = EmptyFun
    /\ layout = EmptyFun
    /\ retain_count = EmptyFun
    /\ free_list = <<>>
    /\ inplace_allocation_dict = EmptyFun
    /\ op_i = 1
    /\ out_i = 1
    /\ in_i = 1
    /\ space1 = <<>>
    /\ buffer = <<>>
    /\ args = <<>>

NextLayout == MemoryLayoutAppend

SpecLayout == InitLayout /\ [][NextLayout]_vars

\* n is the largest offset + size over the allocations of lay, 0 if there is none
IsTotalSize(lay, n) ==
    IF DOMAIN lay = {} THEN n = 0
    ELSE /\ \E v \in DOMAIN lay : lay[v] + graph.size[v] = n
         /\ \A v \in DOMAIN lay : lay[v] + graph.size[v] <= n

\* C11: an append stores the allocation under the original of its argument, at
\* the given offset or at the size the layout had, replaces the allocation the
\* identity had and leaves the others; no alias is a key, no offset is negative,
\* and the size is the largest offset + size of the allocations now stored
C11_LayoutAppend ==
    [][pc = "layout" =>
        LET v == IF args'[1] > MaxValues THEN args'[1] - MaxValues ELSE args'[1]
        IN  /\ DOMAIN layout' = (DOMAIN layout) \cup {v}
            /\ IF args'[2] = -1 THEN IsTotalSize(layout, layout'[v])
                                ELSE layout'[v] = args'[2]
            /\ \A w \in (DOMAIN layout) \ {v} : layout'[w] = layout[w]
            /\ DOMAIN layout' \subseteq 1..MaxValues
            /\ \A w \in DOMAIN layout' : layout'[w] >= 0
            /\ IsTotalSize(layout', LayoutSize(graph, layout'))]_vars

\* C11: the first value was appended through its alias at offset 0 to a layout
\* that holds the two other values, and the layout has an overlap
C11_Witness ==
    /\ pc = "layout"
    /\ args = <<MaxValues + 1, 0>>
    /\ DOMAIN layout = 1..MaxValues
    /\ layout[1] = 0
    /\ layout[2] = 0
    /\ layout[3] = graph.size[2]
    /\ LayoutSize(graph, layout) < graph.size[1] + graph.size[2] + graph.size[3]

\* the values of the graph that are no constants, aliases resolved: the graph
\* inputs and the outputs of the operators
Produced(g) ==
    {Original(g, x) : x \in Range(g.inputs) \cup
        UNION {Range(g.ops[j].outputs) : j \in DOMAIN g.ops}} \ g.consts

\* C12: the returned layout holds exactly the non-constant graph inputs and
\* operator outputs, under their originals: no constant, no alias
C12_LayoutCoversVariables ==
    pc = "done" =>
        /\ DOMAIN layout = Produced(graph)
        /\ DOMAIN layout \cap graph.consts = {}
        /\ DOMAIN layout \cap DOMAIN graph.alias = {}

\* C12: the pass returned for a graph with a constant graph input, an output
\* produced through an alias and a value consumed through an alias
C12_Witness ==
    /\ pc = "done"
    /\ graph.consts # {}
    /\ Len(graph.ops) = MaxAliasOps
    /\ \E j \in DOMAIN graph.ops : graph.ops[j].outputs[1] \in DOMAIN graph.alias
    /\ \E j \in DOMAIN graph.ops : \E k \in DOMAIN graph.ops[j].inputs :
          /\ graph.ops[j].inputs[k] \in DOMAIN graph.alias
          /\ graph.alias[graph.ops[j].inputs[k]] \in DOMAIN layout
    /\ Cardinality(DOMAIN layout) = MaxInputs + MaxAliasOps - 1

\* C13: in the returned layout two allocations overlap only if they share a
\* block through Flatten
C13_FinalNoOverlap ==
    (WellFormed(graph) /\ pc = "done") =>
        \A v \in DOMAIN layout : \A w \in DOMAIN layout :
            (v # w /\ Overlap(BlockOf(v), BlockOf(w))) => Root(v) = Root(w)

\* C14: every pass ends, with its return unless the graph makes it abort; a
\* well-formed graph makes it return; the operator loop only moves forward, and
\* every iteration of the coalescing loop that asks for another one has made
\* the free list shorter
C14_Terminates ==
    /\ <>(pc \in {"done", "error"})
    /\ WellFormed(graph) => <>(pc = "done")
    /\ [][/\ op_i' >= op_i
          /\ (pc = "coalesce" /\ pc' = "coalesce") => Len(free_list') < Len(free_list)]_vars

\* C14: the pass has returned after its last release, whose coalescing loop
\* merged two blocks into the one block of the free list
C14_Witness ==
    /\ WellFormed(graph)
    /\ pc = "done"
    /\ Len(graph.ops) = MaxOps - 1
    /\ Len(free_list) = 1
    /\ free_list[1] = space1
    /\ \E a \in DOMAIN layout : \E b \in DOMAIN layout :
          /\ Precedes(BlockOf(a), BlockOf(b))
          /\ space1 = <<layout[a], graph.size[a] + graph.size[b]>>

\* the pass is between two operator steps, or behind the last one
BetweenOperators == pc = "done" \/ (pc = "outputs" /\ out_i = 1)

\* the operator inputs, of the operator to be processed next and of the later
\* ones, that refer to v or to a Flatten alias of v
PendingReferences(v) ==
    {<<j, k>> \in (DOMAIN graph.ops) \X (1..MaxInputs) :
        /\ j >= op_i
        /\ k \in DOMAIN graph.ops[j].inputs
        /\ LET x == Original(graph, graph.ops[j].inputs[k])
           IN  x = v \/ (x \in DOMAIN inplace_allocation_dict /\ Root(x) = v)}

\* C16: between operator steps the retain count of a value that backs a block
\* is the number of pending operator inputs that refer to it or to a Flatten
\* alias of it; it is never negative
C16_RetainCountIsPending ==
    (WellFormed(graph) /\ BetweenOperators) =>
        \A v \in (DOMAIN layout) \ (DOMAIN inplace_allocation_dict) :
            /\ retain_count[v] >= 0
            /\ retain_count[v] = Cardinality(PendingReferences(v))

\* the list fl without its k-th element
WithoutIndex(fl, k) == SubSeq(fl, 1, k - 1) \o SubSeq(fl, k + 1, Len(fl))

\* C17: a new output of a non-Flatten operator goes to the offset of the
\* smallest free block that holds it, the earliest of the smallest in list
\* order; the block leaves the free list and what is left of it is added; with
\* no such block the output goes to the end of the layout and the free list
\* stays as it is
C17_BestFit ==
    [][GeneralCase =>
        LET var  == CurrentOutput
            r    == graph.size[var]
            fits == {k \in DOMAIN free_list : free_list[k][2] >= r}
        IN  IF fits # {}
            THEN \E k \in fits :
                    /\ \A m \in fits : free_list[k][2] <= free_list[m][2]
                    /\ \A m \in fits : m < k => free_list[m][2] > free_list[k][2]
                    /\ layout'[var] = free_list[k][1]
                    /\ free_list' =
                          WithoutIndex(free_list, k) \o
                          (IF free_list[k][2] > r
                           THEN <<(<<free_list[k][1] + r, free_list[k][2] - r>>)>>
                           ELSE <<>>)
            ELSE /\ IsTotalSize(layout, layout'[var])
                 /\ free_list' = free_list]_vars

\* C17: in a well-formed graph a value of size 1 was given the second block of
\* the free list, of size 1, the first block being larger; the first block is
\* what the free list still holds
C17_Witness ==
    /\ WellFormed(graph)
    /\ pc = "inputs"
    /\ op_i = 3
    /\ in_i = 1
    /\ Len(free_list) = 1
    /\ LET v == graph.ops[3].outputs[1]
       IN  /\ graph.size[v] = 1
           /\ free_list[1][2] = 2
           /\ \E a \in Range(graph.ops[2].inputs) : \E b \in Range(graph.ops[2].inputs) :
                 /\ graph.ops[2].inputs = <<a, b>>
                 /\ free_list[1] = BlockOf(a)
                 /\ layout[v] = layout[b]
                 /\ graph.size[b] = 1

\* C18: no step of the operator loop moves or drops an allocation; an output
\* that is in the layout already is skipped: layout, free list and retain
\* counts stay as they are
C18_OffsetsFixed ==
    [][(pc = "outputs" \/ pc = "inputs" \/ pc = "coalesce") =>
        (/\ \A v \in DOMAIN layout : v \in DOMAIN layout' /\ layout'[v] = layout[v]
         /\ (pc = "outputs" /\ ~IsConstant(graph, CurrentOutput)
                            /\ Contains(layout, CurrentOutput))
               => (layout' = layout /\ free_list' = free_list
                                   /\ retain_count' = retain_count))]_vars

\* C18: the second operator's output is the value the first operator produced:
\* it was skipped, and the pass is at the second operator's inputs
C18_Witness ==
    /\ pc = "inputs"
    /\ op_i = 2
    /\ in_i = 1
    /\ graph.consts = {}
    /\ ~graph.ops[1].flatten
    /\ graph.ops[2].outputs[1] = graph.ops[1].outputs[1]
    /\ graph.ops[1].outputs[1] \notin Range(graph.inputs)
    /\ Contains(layout, graph.ops[2].outputs[1])
    /\ retain_count[graph.ops[2].outputs[1]] = FanOut(graph, graph.ops[2].outputs[1])

\* block b lies inside block c
Inside(b, c) == c[1] <= b[1] /\ b[1] + b[2] <= c[1] + c[2]

\* C19: when the inputs loop of an operator runs, all outputs of the operator
\* have their allocation; the outputs loop that follows is that of the next
\* operator; and the outputs loop puts nothing into the free list but what is
\* left of a block it took from it
C19_OutputsBeforeRelease ==
    [][/\ (pc' = "inputs" \/ pc' = "coalesce") =>
              \A k \in DOMAIN graph.ops[op_i'].outputs :
                  LET o == Original(graph, graph.ops[op_i'].outputs[k])
                  IN  IsConstant(graph, o) \/ Contains(layout', o)
       /\ ((pc = "inputs" \/ pc = "coalesce") /\ pc' = "outputs") => op_i' = op_i + 1
       /\ pc = "outputs" =>
              \A m \in DOMAIN free_list' :
                  \E k \in DOMAIN free_list : Inside(free_list'[m], free_list[k])]_vars

\* C19: the second operator of a wide graph released an input whose block
\* would have held its output; the output lies behind that block, which is in
\* the free list when the third operator's outputs loop starts
C19_Witness ==
    /\ WellFormed(graph)
    /\ pc = "outputs"
    /\ op_i = 3
    /\ Len(graph.ops[1].outputs) = MaxOutputs
    /\ LET o == graph.ops[2].outputs[1]
       IN  \E k \in DOMAIN graph.ops[2].inputs :
              LET a == graph.ops[2].inputs[k]
              IN  /\ \E m \in DOMAIN free_list : Inside(BlockOf(a), free_list[m])
                  /\ graph.size[a] >= graph.size[o]
                  /\ layout[o] >= layout[a] + graph.size[a]

\* the graph inputs that are no constants, in graph-input order
SeededInputs(g) == SelectSeq(g.inputs, LAMBDA v : ~IsConstant(g, v))

RECURSIVE SizesBefore(_, _, _)
\* the sum of the sizes of the first k values of the list d
SizesBefore(g, d, k) == IF k = 0 THEN 0 ELSE SizesBefore(g, d, k - 1) + g.size[d[k]]

\* the graph input v is consumed by no Flatten
NoFlattenConsumer(g, v) == \A j \in InputTo(g, v) : ~g.ops[j].flatten

\* C20: the pass starts with the graph inputs back to back from 0 in their
\* order, every retain count 0 and the free list empty; the retain count of a
\* graph input that no Flatten consumes never rises and is never above 0, and
\* no free block ever overlaps its range
C20_InputsNeverReleased ==
    [][/\ pc = "variables" =>
             LET d == SeededInputs(graph)
             IN  /\ DOMAIN layout' = Range(d)
                 /\ \A i \in DOMAIN d : layout'[d[i]] = SizesBefore(graph, d, i - 1)
                 /\ \A v \in DOMAIN retain_count' : retain_count'[v] = 0
                 /\ free_list' = <<>>
       /\ (pc = "outputs" \/ pc = "inputs" \/ pc = "coalesce") =>
             \A v \in Range(SeededInputs(graph)) :
                 NoFlattenConsumer(graph, v) =>
                     /\ retain_count'[v] <= retain_count[v]
                     /\ retain_count'[v] <= 0
                     /\ \A k \in DOMAIN free_list' :
                           ~Overlap(free_list'[k], <<layout'[v], graph.size[v]>>)]_vars

\* C20: the pass returned for a well-formed graph in which two operators, no
\* Flatten among them, consumed the graph input: its count is -2, and the free
\* list holds the block of another value
C20_Witness ==
    /\ pc = "done"
    /\ WellFormed(graph)
    /\ NoFlattenConsumer(graph, 1)
    /\ FanOut(graph, 1) = 2
    /\ retain_count[1] = -2
    /\ layout[1] = 0
    /\ Len(free_list) = 1
    /\ free_list[1][1] >= graph.size[1]

====
